---- MODULE Spec2Model ----
(***************************************************************************)
(* A model of the pace-note pipeline of RouteProcessor                      *)
(* (src/src/utils/routeProcessor.ts).  Distances, radii and angles are      *)
(* integers (metres, degrees); a nullable value is a sequence of length 0   *)
(* or 1; a severity, which the code keeps as "number | string", is a        *)
(* string ("1".."6", "Hairpin", "Square", "Acute", "FINISH").               *)
(***************************************************************************)
EXTENDS Integers, Sequences, FiniteSets, TLC

VARIABLES
    pc,              \* position of the pipeline
    totalDistance,   \* route.totalDistance, as the routing provider gave it
    cornerSegments,  \* result of identifySignificantCorners
    instantTurns,    \* result of detectInstantSharpTurns
    uniqueCorners,   \* result of removeDuplicateCorners
    paceNotes,       \* the list processRoute returns
    mergedNotes,     \* the list after the chicane merger
    mergeLog,        \* history: the pairs <<i, i+1>> of paceNotes indices merged
    rawPoints,           \* route.points, the caller's array
    interpolatedPoints,  \* result of interpolatePoints
    curvatureData,       \* result of calculateCurvatureProfile
    scan,                \* the locals of identifySignificantCorners' loop
    app              \* the state of the App component and its route requests

notesVars == <<totalDistance, cornerSegments, instantTurns, uniqueCorners,
               paceNotes, mergedNotes, mergeLog>>

routeVars == <<rawPoints, interpolatedPoints, curvatureData, scan>>

vars == <<pc, notesVars, routeVars, app>>

\* the pipeline on its own: no App component around it
NoApp == <<>>

\* the loop locals of identifySignificantCorners before its first iteration
NotScanning ==
    [i |-> 0, inCorner |-> FALSE, cornerStart |-> 0, cornerRadii |-> <<>>,
     bearingStart |-> 0, corners |-> <<>>]

(***************************************************************************)
(* Arithmetic helpers                                                      *)
(***************************************************************************)
Abs(x) == IF x < 0 THEN -x ELSE x

Min2(a, b) == IF a < b THEN a ELSE b

Max2(a, b) == IF a > b THEN a ELSE b

RECURSIVE SumSeq(_)
SumSeq(s) == IF s = <<>> THEN 0 ELSE Head(s) + SumSeq(Tail(s))

RECURSIVE MaxSeq(_)
MaxSeq(s) == IF Len(s) = 1 THEN s[1] ELSE Max2(Head(s), MaxSeq(Tail(s)))

RECURSIVE MinSeq(_)
MinSeq(s) == IF Len(s) = 1 THEN s[1] ELSE Min2(Head(s), MinSeq(Tail(s)))

Range(s) == {s[i] : i \in 1..Len(s)}

(***************************************************************************)
(* Configuration constants of RouteProcessor                               *)
(***************************************************************************)
INTERPOLATION_DISTANCE == 3

SEVERITY_THRESHOLDS == <<20, 40, 70, 120, 200, 500>>

CREST_THRESHOLD == 5

DIP_THRESHOLD == 5

JUMP_THRESHOLD == 10

NumericSeverities == {"1", "2", "3", "4", "5", "6"}

\* typeof severity === 'number'
IsNumber(severity) == severity \in NumericSeverities

NumberToSeverity(n) == <<"1", "2", "3", "4", "5", "6">>[n]

SeverityToNumber(severity) ==
    CASE severity = "1" -> 1
      [] severity = "2" -> 2
      [] severity = "3" -> 3
      [] severity = "4" -> 4
      [] severity = "5" -> 5
      [] severity = "6" -> 6

(***************************************************************************)
(* roundDistance: Math.round(distance / 10) * 10.  Math.round rounds a     *)
(* half up, and \div is the floor division.                                *)
(***************************************************************************)
roundDistance(distance) == ((distance + 5) \div 10) * 10

(***************************************************************************)
(* mapRadiusToMcRae                                                        *)
(***************************************************************************)
mapRadiusToMcRae(radius) ==
    IF radius < SEVERITY_THRESHOLDS[1] THEN 1
    ELSE IF radius < SEVERITY_THRESHOLDS[2] THEN 2
    ELSE IF radius < SEVERITY_THRESHOLDS[3] THEN 3
    ELSE IF radius < SEVERITY_THRESHOLDS[4] THEN 4
    ELSE IF radius < SEVERITY_THRESHOLDS[5] THEN 5
    ELSE 6

(***************************************************************************)
(* determineSeverityAndType: the special labels are tried first, in the    *)
(* order Square, Hairpin, Acute, each with its own radius limit; then the  *)
(* radius is mapped to the 1-6 scale.                                      *)
(***************************************************************************)
determineSeverityAndType_AngleOnly(radius, totalAngle) ==
    IF totalAngle >= 75 /\ totalAngle <= 105
    THEN [severity |-> "Square", turnType |-> "SpecialTurn"]
    ELSE IF totalAngle >= 150 /\ totalAngle <= 180
    THEN [severity |-> "Hairpin", turnType |-> "SpecialTurn"]
    ELSE IF totalAngle < 60 /\ totalAngle > 25
    THEN [severity |-> "Acute", turnType |-> "SpecialTurn"]
    ELSE [severity |-> NumberToSeverity(mapRadiusToMcRae(radius)), turnType |-> "Turn"]

determineSeverityAndType_LooseHairpin(radius, totalAngle) ==
    IF totalAngle >= 75 /\ totalAngle <= 105 /\ radius < 70
    THEN [severity |-> "Square", turnType |-> "SpecialTurn"]
    ELSE IF totalAngle >= 150 /\ totalAngle <= 180 /\ radius < 70
    THEN [severity |-> "Hairpin", turnType |-> "SpecialTurn"]
    ELSE IF totalAngle < 60 /\ totalAngle > 25 /\ radius < 50
    THEN [severity |-> "Acute", turnType |-> "SpecialTurn"]
    ELSE [severity |-> NumberToSeverity(mapRadiusToMcRae(radius)), turnType |-> "Turn"]

determineSeverityAndType(radius, totalAngle) ==
    IF totalAngle >= 75 /\ totalAngle <= 105 /\ radius < 70
    THEN [severity |-> "Square", turnType |-> "SpecialTurn"]
    ELSE IF totalAngle >= 150 /\ totalAngle <= 180 /\ radius < 40
    THEN [severity |-> "Hairpin", turnType |-> "SpecialTurn"]
    ELSE IF totalAngle < 60 /\ totalAngle > 25 /\ radius < 50
    THEN [severity |-> "Acute", turnType |-> "SpecialTurn"]
    ELSE IF radius < SEVERITY_THRESHOLDS[1] THEN [severity |-> "1", turnType |-> "Turn"]
    ELSE IF radius < SEVERITY_THRESHOLDS[2] THEN [severity |-> "2", turnType |-> "Turn"]
    ELSE IF radius < SEVERITY_THRESHOLDS[3] THEN [severity |-> "3", turnType |-> "Turn"]
    ELSE IF radius < SEVERITY_THRESHOLDS[4] THEN [severity |-> "4", turnType |-> "Turn"]
    ELSE IF radius < SEVERITY_THRESHOLDS[5] THEN [severity |-> "5", turnType |-> "Turn"]
    ELSE [severity |-> "6", turnType |-> "Turn"]

(***************************************************************************)
(* severityStringToNumber                                                  *)
(***************************************************************************)
severityStringToNumber_NoHairpin(severity) ==
    CASE severity = "Square" -> 2
      [] severity = "Acute" -> 2
      [] OTHER -> 3

severityStringToNumber(severity) ==
    CASE severity = "Hairpin" -> 1
      [] severity = "Square" -> 2
      [] severity = "Acute" -> 2
      [] OTHER -> 3

\* typeof severity === 'number' ? severity : this.severityStringToNumber(severity)
turnNumberOf(severity) ==
    IF IsNumber(severity) THEN SeverityToNumber(severity)
    ELSE severityStringToNumber(severity)

(***************************************************************************)
(* getLengthModifier: a nullable 'Long' | 'Short'                          *)
(***************************************************************************)
getLengthModifier(totalAngle) ==
    IF totalAngle > 110 THEN <<"Long">>
    ELSE IF totalAngle < 35 THEN <<"Short">>
    ELSE <<>>

(***************************************************************************)
(* A corner candidate is the record the two detectors build,               *)
(*   [startIdx, endIdx, position, totalAngle, direction, avgRadius],       *)
(* and a segment is what analyzeCorner measures on                         *)
(* points.slice(startIdx, endIdx + 1):                                     *)
(*   elevations  the points' elevations (p.elevation || 0), one per point  *)
(*   flips       the direction check of analyzeRadiusChangeInCorner found  *)
(*               the start and the end of the slice on opposite sides of   *)
(*               its chord, both by more than 5 degrees                    *)
(*   radii       the circumradii at i = 2, 4, ... that lie in (0, 1000)    *)
(***************************************************************************)
NoDirection == "null"

(***************************************************************************)
(* analyzeRadiusChangeInCorner, from the measured segment on.  The result  *)
(* is nullable.  firstAvg and lastAvg are averages over thirdSize radii:   *)
(* change = (lastAvg - firstAvg) / firstAvg is compared through the sums,  *)
(* and an average is only ever compared with an integer threshold, so its  *)
(* floor stands for it.                                                    *)
(***************************************************************************)
analyzeRadiusChangeInCorner(seg) ==
    IF Len(seg.elevations) < 9 THEN <<>>
    ELSE IF seg.flips THEN <<>>
    ELSE IF Len(seg.radii) < 3 THEN <<>>
    ELSE
        LET thirdSize == Len(seg.radii) \div 3
            firstThird == SubSeq(seg.radii, 1, thirdSize)
            lastThird == SubSeq(seg.radii, Len(seg.radii) - thirdSize + 1, Len(seg.radii))
            firstSum == SumSeq(firstThird)
            lastSum == SumSeq(lastThird)
            firstAvg == firstSum \div thirdSize
            lastAvg == lastSum \div thirdSize
        IN  IF 5 * (lastSum - firstSum) < -firstSum
            THEN <<[type |-> "tightens", toSeverity |-> mapRadiusToMcRae(lastAvg),
                    entryRadius |-> firstAvg]>>
            ELSE IF 5 * (lastSum - firstSum) > firstSum
            THEN <<[type |-> "widens", toSeverity |-> mapRadiusToMcRae(lastAvg),
                    entryRadius |-> firstAvg]>>
            ELSE <<>>

(***************************************************************************)
(* detectElevationHazards                                                  *)
(***************************************************************************)
detectElevationHazards(elevations) ==
    IF Len(elevations) < 3 THEN <<>>
    ELSE
        LET segmentLength == Len(elevations) * INTERPOLATION_DISTANCE
            elevChange == elevations[Len(elevations)] - elevations[1]
            elevRange == MaxSeq(elevations) - MinSeq(elevations)
            midIdx == (Len(elevations) \div 2) + 1
            firstHalfChange == elevations[midIdx] - elevations[1]
            secondHalfChange == elevations[Len(elevations)] - elevations[midIdx]
        IN  IF elevRange > JUMP_THRESHOLD /\ segmentLength < 50 THEN <<"Jump">>
            ELSE IF firstHalfChange > 3 /\ secondHalfChange < -3 THEN <<"Crest">>
            ELSE IF elevChange * 100 > CREST_THRESHOLD * segmentLength THEN <<"Crest">>
            ELSE IF elevChange * 100 < -DIP_THRESHOLD * segmentLength THEN <<"Dip">>
            ELSE <<>>

(***************************************************************************)
(* generateAdvice                                                          *)
(***************************************************************************)
generateAdvice(severity, radius, hazards) ==
    LET caution == IF (IsNumber(severity) /\ SeverityToNumber(severity) <= 2)
                      \/ severity = "Hairpin"
                   THEN <<"Caution">> ELSE <<>>
        hazard == IF "Jump" \in Range(hazards) THEN <<"Heavy Braking">>
                  ELSE IF "Crest" \in Range(hazards) THEN <<"Blind">>
                  ELSE <<>>
    IN  caution \o hazard

(***************************************************************************)
(* analyzeCorner: a nullable PaceNote.  A modifier is a record             *)
(* [type, to]; a plain modifier ('Long', 'tightens') has to = 0.           *)
(***************************************************************************)
Modifier(type) == [type |-> type, to |-> 0]

\* the radius analyzeCorner classifies: the entry radius of a radius change,
\* else the average radius
EntryRadius(corner) ==
    LET radiusChange == analyzeRadiusChangeInCorner(corner.seg)
    IN  IF radiusChange # <<>> THEN radiusChange[1].entryRadius
        ELSE corner.avgRadius

analyzeCorner(corner) ==
    IF corner.endIdx + 1 - corner.startIdx < 3 THEN <<>>
    ELSE
        LET radiusChange == analyzeRadiusChangeInCorner(corner.seg)
            entryRadius == EntryRadius(corner)
            st == determineSeverityAndType(entryRadius, corner.totalAngle)
            severity == st.severity
            lengthModifier == getLengthModifier(corner.totalAngle)
            elevationHazards == detectElevationHazards(corner.seg.elevations)
            currentSeverity == turnNumberOf(severity)
            modifiers ==
                (IF lengthModifier # <<>> THEN <<Modifier(lengthModifier[1])>> ELSE <<>>)
                \o (IF radiusChange # <<>> /\ radiusChange[1].toSeverity # currentSeverity
                    THEN <<Modifier(radiusChange[1].type),
                           [type |-> "to", to |-> radiusChange[1].toSeverity]>>
                    ELSE <<>>)
        IN  <<[position |-> roundDistance(corner.position),
               distance |-> roundDistance(corner.position),
               type |-> IF st.turnType = "Turn" THEN "Turn" ELSE "SpecialTurn",
               direction |-> corner.direction,
               severity |-> severity,
               turnNumber |-> turnNumberOf(severity),
               modifiers |-> modifiers,
               hazards |-> elevationHazards,
               advice |-> generateAdvice(severity, corner.avgRadius, elevationHazards),
               distanceToNext |-> <<>>,
               secondNote |-> <<>>]>>

(***************************************************************************)
(* createStartNote, createFinishNote                                       *)
(***************************************************************************)
createStartNote ==
    [position |-> 0, distance |-> 0, type |-> "Straight", direction |-> NoDirection,
     severity |-> "6", turnNumber |-> 6, modifiers |-> <<>>, hazards |-> <<>>,
     advice |-> <<>>, distanceToNext |-> <<>>, secondNote |-> <<>>]

createFinishNote_Rounded(total) ==
    [position |-> roundDistance(total), distance |-> roundDistance(total), type |-> "Advice",
     direction |-> NoDirection, severity |-> "FINISH", turnNumber |-> 0,
     modifiers |-> <<>>, hazards |-> <<>>, advice |-> <<"Over Finish">>,
     distanceToNext |-> <<>>, secondNote |-> <<>>]

createFinishNote(total) ==
    [position |-> total, distance |-> total, type |-> "Advice",
     direction |-> NoDirection, severity |-> "FINISH", turnNumber |-> 0,
     modifiers |-> <<>>, hazards |-> <<>>, advice |-> <<"Over Finish">>,
     distanceToNext |-> <<>>, secondNote |-> <<>>]

(***************************************************************************)
(* calculateDistancesToNext                                                *)
(***************************************************************************)
calculateDistancesToNext_Reversed(notes) ==
    [i \in 1..Len(notes) |->
        IF i < Len(notes)
        THEN [notes[i] EXCEPT !.distanceToNext =
                  <<notes[i].position - notes[i + 1].position>>]
        ELSE [notes[i] EXCEPT !.distanceToNext = <<>>]]

calculateDistancesToNext(notes) ==
    [i \in 1..Len(notes) |->
        IF i < Len(notes)
        THEN [notes[i] EXCEPT !.distanceToNext =
                  <<notes[i + 1].position - notes[i].position>>]
        ELSE [notes[i] EXCEPT !.distanceToNext = <<>>]]

(***************************************************************************)
(* allCorners.sort((a, b) => a.position - b.position): Array.prototype.sort *)
(* is stable, so candidates at one position keep their order.              *)
(***************************************************************************)
RECURSIVE InsertByPosition(_, _)
InsertByPosition(sorted, corner) ==
    IF sorted = <<>> THEN <<corner>>
    ELSE IF sorted[Len(sorted)].position <= corner.position THEN Append(sorted, corner)
    ELSE Append(InsertByPosition(SubSeq(sorted, 1, Len(sorted) - 1), corner),
                sorted[Len(sorted)])

RECURSIVE SortByPosition(_)
SortByPosition(corners) ==
    IF corners = <<>> THEN <<>>
    ELSE InsertByPosition(SortByPosition(SubSeq(corners, 1, Len(corners) - 1)),
                          corners[Len(corners)])

(***************************************************************************)
(* removeDuplicateCorners: a candidate within 20 of a kept candidate of    *)
(* the same direction is a duplicate of the first such candidate, and      *)
(* takes its slot when it has more angle or a tighter radius.              *)
(***************************************************************************)
IsDuplicateOf_Ten(corner, existing) ==
    /\ Abs(corner.position - existing.position) < 10
    /\ corner.direction = existing.direction

IsDuplicateOf(corner, existing) ==
    /\ Abs(corner.position - existing.position) < 20
    /\ corner.direction = existing.direction

\* unique.findIndex(...), 1-based; 0 when there is none
DuplicateIdx(unique, corner) ==
    IF \E i \in 1..Len(unique) : IsDuplicateOf(corner, unique[i])
    THEN CHOOSE i \in 1..Len(unique) :
            /\ IsDuplicateOf(corner, unique[i])
            /\ \A j \in 1..(i - 1) : ~IsDuplicateOf(corner, unique[j])
    ELSE 0

KeepOrReplace(unique, corner) ==
    LET duplicateIdx == DuplicateIdx(unique, corner)
    IN  IF duplicateIdx = 0 THEN Append(unique, corner)
        ELSE IF \/ corner.totalAngle > unique[duplicateIdx].totalAngle
                \/ corner.avgRadius < unique[duplicateIdx].avgRadius
        THEN [unique EXCEPT ![duplicateIdx] = corner]
        ELSE unique

RECURSIVE removeDuplicateCorners(_)
removeDuplicateCorners(corners) ==
    IF corners = <<>> THEN <<>>
    ELSE KeepOrReplace(removeDuplicateCorners(SubSeq(corners, 1, Len(corners) - 1)),
                       corners[Len(corners)])

(***************************************************************************)
(* processRoute, steps 5 to 7: the start note (the first corner when it    *)
(* lies within 50 of the start and yields a note), the corner notes, the   *)
(* finish note, the distances to the next note.                            *)
(***************************************************************************)
RECURSIVE CornerNotes(_)
CornerNotes(corners) ==
    IF corners = <<>> THEN <<>>
    ELSE analyzeCorner(Head(corners)) \o CornerNotes(Tail(corners))

GenerateNotes_FirstCornerTwice(unique, total) ==
    LET startNote == IF Len(unique) > 0 /\ unique[1].position < 50
                     THEN analyzeCorner(unique[1]) ELSE <<>>
        first == IF startNote # <<>>
                 THEN [startNote[1] EXCEPT !.position = 0, !.distance = 0]
                 ELSE createStartNote
    IN  calculateDistancesToNext(
            <<first>> \o CornerNotes(unique) \o <<createFinishNote(total)>>)

GenerateNotes(unique, total) ==
    LET startNote == IF Len(unique) > 0 /\ unique[1].position < 50
                     THEN analyzeCorner(unique[1]) ELSE <<>>
        firstCornerIsStart == startNote # <<>>
        first == IF firstCornerIsStart
                 THEN [startNote[1] EXCEPT !.position = 0, !.distance = 0]
                 ELSE createStartNote
        cornersToProcess == IF firstCornerIsStart THEN Tail(unique) ELSE unique
    IN  calculateDistancesToNext(
            <<first>> \o CornerNotes(cornersToProcess) \o <<createFinishNote(total)>>)

(***************************************************************************)
(* The chicane merger.  RouteProcessor.shouldMergeNotes and                *)
(* createMergedNote are named by docs/archive/NOTE_MERGING_IMPLEMENTATION   *)
(* but are not in the source at hand; they are modelled from the           *)
(* specification (section 4.6) and that document: the notes between the     *)
(* first note and the FINISH note are scanned in order, an eligible        *)
(* adjacent pair becomes one note and the scan goes on after the pair.     *)
(***************************************************************************)
MERGE_DISTANCE == 40

MAX_SEVERITY_DIFFERENCE == 3

\* every special label counted as severity 1
shouldMergeNotes_LabelsAsOne(note1, note2) ==
    LET sev1 == IF IsNumber(note1.severity) THEN SeverityToNumber(note1.severity) ELSE 1
        sev2 == IF IsNumber(note2.severity) THEN SeverityToNumber(note2.severity) ELSE 1
    IN  /\ Abs(note2.position - note1.position) <= MERGE_DISTANCE
        /\ sev1 # 1
        /\ sev2 # 1
        /\ Abs(sev1 - sev2) <= MAX_SEVERITY_DIFFERENCE
        /\ note1.direction # NoDirection
        /\ note2.direction # NoDirection

shouldMergeNotes(note1, note2) ==
    /\ Abs(note2.position - note1.position) <= MERGE_DISTANCE
    /\ note1.turnNumber # 1
    /\ note2.turnNumber # 1
    /\ Abs(note1.turnNumber - note2.turnNumber) <= MAX_SEVERITY_DIFFERENCE
    /\ note1.direction # NoDirection
    /\ note2.direction # NoDirection

createMergedNote(note1, note2) ==
    [note1 EXCEPT
        !.severity = note1.severity \o " into " \o note2.severity,
        !.hazards = note1.hazards \o note2.hazards,
        !.secondNote = <<[severity |-> note2.severity,
                          direction |-> note2.direction,
                          modifiers |-> note2.modifiers,
                          position |-> note2.position]>>]

\* the indices i of notes such that notes[i] and notes[i + 1] are merged,
\* scanning from index `from`; the first note and the last are left alone
RECURSIVE MergePairsFrom(_, _)
MergePairsFrom(notes, from) ==
    IF from + 1 > Len(notes) - 1 THEN <<>>
    ELSE IF shouldMergeNotes(notes[from], notes[from + 1])
    THEN <<from>> \o MergePairsFrom(notes, from + 2)
    ELSE MergePairsFrom(notes, from + 1)

MergePairs_Chained(notes) ==
    SelectSeq([i \in 1..Len(notes) |-> i],
              LAMBDA i : i >= 2 /\ i + 1 <= Len(notes) - 1
                         /\ shouldMergeNotes(notes[i], notes[i + 1]))

MergePairs_FromFirst(notes) == MergePairsFrom(notes, 1)

MergePairs(notes) == MergePairsFrom(notes, 2)

\* the merged list for the pairs `log`: the second note of a pair is absorbed
RECURSIVE ApplyMerges(_, _, _)
ApplyMerges(notes, log, i) ==
    IF i > Len(notes) THEN <<>>
    ELSE IF i \in Range(log) /\ i < Len(notes)
    THEN <<createMergedNote(notes[i], notes[i + 1])>> \o ApplyMerges(notes, log, i + 2)
    ELSE <<notes[i]>> \o ApplyMerges(notes, log, i + 1)

mergeCloseNotes(notes) ==
    calculateDistancesToNext(ApplyMerges(notes, MergePairs(notes), 1))

(***************************************************************************)
(* The candidate pools.  The samples of a densely recorded route lie 1     *)
(* apart, so a sample's index is its distance; a sustained candidate is    *)
(* called at the start of its window of 9 samples, an instant turn at i    *)
(* has the window [i - 2, i + 2].                                          *)
(***************************************************************************)
MaxCorners == 3

CornerPositions == {4, 95, 104, 113, 126}

TotalDistances == {128, 200}

Directions == {"Left", "Right"}

FlatSegment(n) == [elevations |-> [i \in 1..n |-> 0], flips |-> FALSE, radii |-> <<>>]

SustainedShapes ==
    { [avgRadius |-> 35, totalAngle |-> 160, seg |-> FlatSegment(9)],
      [avgRadius |-> 25, totalAngle |-> 120, seg |-> FlatSegment(9)],
      [avgRadius |-> 60, totalAngle |-> 65,
       seg |-> [elevations |-> <<0, 1, 2, 3, 4, 3, 2, 1, 0>>, flips |-> FALSE,
                radii |-> <<80, 70, 50>>]],
      [avgRadius |-> 300, totalAngle |-> 14, seg |-> FlatSegment(9)] }

InstantShapes ==
    { [avgRadius |-> 30, totalAngle |-> 90, seg |-> FlatSegment(5)] }

SustainedCorner(position, direction, shape) ==
    [startIdx |-> position, endIdx |-> position + 8, position |-> position,
     totalAngle |-> shape.totalAngle, direction |-> direction,
     avgRadius |-> shape.avgRadius, seg |-> shape.seg]

InstantCorner(position, direction, shape) ==
    [startIdx |-> position - 2, endIdx |-> position + 2, position |-> position,
     totalAngle |-> shape.totalAngle, direction |-> direction,
     avgRadius |-> shape.avgRadius, seg |-> shape.seg]

\* the elements of a set of integers, in increasing order
RECURSIVE Ascending(_)
Ascending(S) ==
    IF S = {} THEN <<>>
    ELSE LET m == CHOOSE x \in S : \A y \in S : x <= y
         IN  <<m>> \o Ascending(S \ {m})

(***************************************************************************)
(* The pipeline from the detectors' results on                             *)
(***************************************************************************)
InitNotes ==
    /\ pc = "detected"
    /\ totalDistance \in TotalDistances
    /\ \E PS \in SUBSET CornerPositions, PI \in SUBSET CornerPositions :
        /\ Cardinality(PS) + Cardinality(PI) <= MaxCorners
        /\ \E fS \in [PS -> Directions \X SustainedShapes],
              fI \in [PI -> Directions \X InstantShapes] :
            /\ cornerSegments =
                 [k \in 1..Cardinality(PS) |->
                    LET p == Ascending(PS)[k]
                    IN  SustainedCorner(p, fS[p][1], fS[p][2])]
            /\ instantTurns =
                 [k \in 1..Cardinality(PI) |->
                    LET p == Ascending(PI)[k]
                    IN  InstantCorner(p, fI[p][1], fI[p][2])]
    /\ uniqueCorners = <<>>
    /\ paceNotes = <<>>
    /\ mergedNotes = <<>>
    /\ mergeLog = <<>>
    /\ rawPoints = <<>>
    /\ interpolatedPoints = <<>>
    /\ curvatureData = <<>>
    /\ scan = NotScanning
    /\ app = NoApp

\* processRoute, step 4.5: pool, sort, deduplicate
Deduplicate ==
    /\ pc = "detected"
    /\ uniqueCorners' = removeDuplicateCorners(SortByPosition(cornerSegments \o instantTurns))
    /\ pc' = "deduplicated"
    /\ UNCHANGED <<totalDistance, cornerSegments, instantTurns, paceNotes,
                   mergedNotes, mergeLog>>
    /\ UNCHANGED routeVars
    /\ UNCHANGED app

\* processRoute, steps 5 to 7, and its return
Assemble ==
    /\ pc = "deduplicated"
    /\ paceNotes' = GenerateNotes(uniqueCorners, totalDistance)
    /\ pc' = "returned"
    /\ UNCHANGED <<totalDistance, cornerSegments, instantTurns, uniqueCorners,
                   mergedNotes, mergeLog>>
    /\ UNCHANGED routeVars
    /\ UNCHANGED app

\* the chicane merger, run on the assembled notes
MergeChicanes ==
    /\ pc = "returned"
    /\ mergeLog' = MergePairs(paceNotes)
    /\ mergedNotes' = mergeCloseNotes(paceNotes)
    /\ pc' = "merged"
    /\ UNCHANGED <<totalDistance, cornerSegments, instantTurns, uniqueCorners,
                   paceNotes>>
    /\ UNCHANGED routeVars
    /\ UNCHANGED app

NextNotes == Deduplicate \/ Assemble \/ MergeChicanes

SpecNotes == InitNotes /\ [][NextNotes]_vars

(***************************************************************************)
(* Claims about the assembled notes                                        *)
(***************************************************************************)
Returned == pc \in {"returned", "merged"}

\* C1: the positions of the notes processRoute returns are non-negative and
\* non-decreasing in output order (first note, corner notes, Finish).
C1_PositionsNonDecreasing ==
    Returned =>
        /\ \A i \in 1..Len(paceNotes) : paceNotes[i].position >= 0
        /\ \A i \in 1..(Len(paceNotes) - 1) :
              paceNotes[i].position <= paceNotes[i + 1].position

\* C2: every returned note, the Finish note included, has a position that is
\* a multiple of 10, and every non-null distanceToNext is a multiple of 10.
C2_MultiplesOfTen ==
    Returned =>
        \A i \in 1..Len(paceNotes) :
            /\ paceNotes[i].position % 10 = 0
            /\ paceNotes[i].distanceToNext # <<>>
                  => paceNotes[i].distanceToNext[1] % 10 = 0

(***************************************************************************)
(* Claims about the chicane merger                                         *)
(***************************************************************************)
\* the numeric severity of a note as the specification counts it: the number
\* itself, 1 for a Hairpin, 2 for a Square or an Acute
NumericSeverity(note) ==
    CASE note.severity = "Hairpin" -> 1
      [] note.severity \in {"Square", "Acute"} -> 2
      [] OTHER -> SeverityToNumber(note.severity)

\* the index in mergedNotes of the note that paceNotes[i] became or joined
MergedIndex(i) ==
    i - Cardinality({j \in Range(mergeLog) : j < i})

\* C6: a pair of notes is merged only if the positions are within 40 of each
\* other, neither numeric severity is 1, the numeric severities differ by at
\* most 3, and both notes have a direction.
C6_MergeOnlyIfEligible ==
    pc = "merged" =>
        \A i \in Range(mergeLog) :
            LET a == paceNotes[i]
                b == paceNotes[i + 1]
            IN  /\ Abs(b.position - a.position) <= 40
                /\ NumericSeverity(a) # 1
                /\ NumericSeverity(b) # 1
                /\ Abs(NumericSeverity(a) - NumericSeverity(b)) <= 3
                /\ a.direction \in Directions
                /\ b.direction \in Directions

C6_Witness ==
    /\ pc = "merged"
    /\ mergeLog # <<>>
    /\ \E i \in Range(mergeLog) : paceNotes[i].severity = "Square"

\* C7: no note takes part in more than one merge: the merged pairs are
\* disjoint, and a merged note stands for exactly two notes of the input.
C7_NoChain ==
    pc = "merged" =>
        /\ \A i, j \in Range(mergeLog) : i # j => Abs(i - j) >= 2
        /\ Len(mergedNotes) = Len(paceNotes) - Len(mergeLog)
        /\ \A i \in Range(mergeLog) :
              LET m == mergedNotes[MergedIndex(i)]
              IN  /\ m.severity = paceNotes[i].severity \o " into "
                                     \o paceNotes[i + 1].severity
                  /\ paceNotes[i].secondNote = <<>>
                  /\ paceNotes[i + 1].secondNote = <<>>

\* three consecutive corner notes, pairwise eligible, of which the first two
\* are merged and the third is left alone
C7_Witness ==
    /\ pc = "merged"
    /\ \E i \in Range(mergeLog) :
          /\ i + 2 <= Len(paceNotes) - 1
          /\ shouldMergeNotes(paceNotes[i + 1], paceNotes[i + 2])
          /\ (i + 1) \notin Range(mergeLog)

\* C8: neither the first note nor the FINISH note is one of the two notes of
\* a merge.
C8_StartAndFinishNeverMerged ==
    pc = "merged" =>
        /\ \A i \in Range(mergeLog) : i >= 2 /\ i + 1 <= Len(paceNotes) - 1
        /\ mergedNotes[1] = paceNotes[1]
        /\ mergedNotes[Len(mergedNotes)] = paceNotes[Len(paceNotes)]

\* the first note is a detected corner repositioned to 0, and it and the
\* next note would be eligible as a pair
C8_Witness ==
    /\ pc = "merged"
    /\ Len(paceNotes) >= 3
    /\ paceNotes[1].direction \in Directions
    /\ paceNotes[1].position = 0
    /\ Abs(paceNotes[2].position - paceNotes[1].position) <= 40
    /\ paceNotes[1].turnNumber # 1
    /\ paceNotes[2].turnNumber # 1
    /\ Abs(paceNotes[1].turnNumber - paceNotes[2].turnNumber) <= 3
    /\ paceNotes[2].direction \in Directions

BoundaryRadii == {10, 19, 20, 39, 40, 49, 50, 69, 70, 119, 120, 199, 200, 300}

BoundaryAngles == {10, 25, 26, 59, 60, 74, 75, 105, 106, 149, 150, 180}

PlainAngles == {10, 120}

ClassifiedSegments ==
    { FlatSegment(9),
      [elevations |-> [i \in 1..9 |-> 0], flips |-> FALSE, radii |-> <<80, 70, 50>>],
      [elevations |-> [i \in 1..9 |-> 0], flips |-> FALSE, radii |-> <<35, 40, 60>>] }

InitClassify ==
    /\ pc = "deduplicated"
    /\ totalDistance = 200
    /\ cornerSegments = <<>>
    /\ instantTurns = <<>>
    /\ \E r1 \in BoundaryRadii, a1 \in BoundaryAngles, s1 \in ClassifiedSegments,
          r2 \in BoundaryRadii, a2 \in PlainAngles :
          uniqueCorners =
            << SustainedCorner(60, "Left",
                               [avgRadius |-> r1, totalAngle |-> a1, seg |-> s1]),
               SustainedCorner(100, "Right",
                               [avgRadius |-> r2, totalAngle |-> a2,
                                seg |-> FlatSegment(9)]) >>
    /\ paceNotes = <<>>
    /\ mergedNotes = <<>>
    /\ mergeLog = <<>>
    /\ rawPoints = <<>>
    /\ interpolatedPoints = <<>>
    /\ curvatureData = <<>>
    /\ scan = NotScanning
    /\ app = NoApp

NextClassify == Assemble

SpecClassify == InitClassify /\ [][NextClassify]_vars

\* in SpecClassify the note of uniqueCorners[k] is paceNotes[k + 1]
Classified == pc = "returned" /\ Len(paceNotes) = Len(uniqueCorners) + 2

\* C3: a note labelled Hairpin was classified from an entry radius of numeric
\* class at most 2, a note labelled Square or Acute from one of class at
\* most 3.
C3_SpecialLabelIsTight ==
    Classified =>
        \A k \in 1..Len(uniqueCorners) :
            LET note == paceNotes[k + 1]
                class == mapRadiusToMcRae(EntryRadius(uniqueCorners[k]))
            IN  /\ note.severity = "Hairpin" => class <= 2
                /\ note.severity \in {"Square", "Acute"} => class <= 3

\* each special label is given, at the loosest class it allows
C3_Witness ==
    /\ Classified
    /\ paceNotes[2].severity \in {"Hairpin", "Square", "Acute"}
    /\ mapRadiusToMcRae(EntryRadius(uniqueCorners[1])) =
          (IF paceNotes[2].severity = "Hairpin" THEN 2 ELSE 3)
    /\ analyzeRadiusChangeInCorner(uniqueCorners[1].seg) # <<>>

StepVectors ==
    << <<-26, -299>>, <<-52, -295>>, <<-78, -290>>, <<-103, -282>>, <<-127, -272>>, <<-150, -260>>,
       <<-172, -246>>, <<-193, -230>>, <<-212, -212>>, <<-230, -193>>, <<-246, -172>>, <<-260, -150>>,
       <<-272, -127>>, <<-282, -103>>, <<-290, -78>>, <<-295, -52>>, <<-299, -26>>, <<-300, 0>>,
       <<-299, 26>>, <<-295, 52>>, <<-290, 78>>, <<-282, 103>>, <<-272, 127>>, <<-260, 150>>,
       <<-246, 172>>, <<-230, 193>>, <<-212, 212>>, <<-193, 230>>, <<-172, 246>>, <<-150, 260>>,
       <<-127, 272>>, <<-103, 282>>, <<-78, 290>>, <<-52, 295>>, <<-26, 299>>, <<0, 300>>,
       <<26, 299>>, <<52, 295>>, <<78, 290>>, <<103, 282>>, <<127, 272>>, <<150, 260>>,
       <<172, 246>>, <<193, 230>>, <<212, 212>>, <<230, 193>>, <<246, 172>>, <<260, 150>>,
       <<272, 127>>, <<282, 103>>, <<290, 78>>, <<295, 52>>, <<299, 26>>, <<300, 0>>,
       <<299, -26>>, <<295, -52>>, <<290, -78>>, <<282, -103>>, <<272, -127>>, <<260, -150>>,
       <<246, -172>>, <<230, -193>>, <<212, -212>>, <<193, -230>>, <<172, -246>>, <<150, -260>>,
       <<127, -272>>, <<103, -282>>, <<78, -290>>, <<52, -295>>, <<26, -299>>, <<0, -300>> >>

\* the headings of a slight kink, between two headings of the table, and
\* their steps
FineHeadings == 1..4

FineStepVectors == <<<<5, 300>>, <<10, 300>>, <<16, 300>>, <<21, 299>>>>

Headings == {5 * k - 175 : k \in 0..71} \cup FineHeadings

StepVector(h) ==
    IF h \in FineHeadings THEN FineStepVectors[h]
    ELSE StepVectors[((h + 175) % 360) \div 5 + 1]

\* normalizeBearing: into -180..180
RECURSIVE normalizeBearing(_)
normalizeBearing(bearing) ==
    IF bearing > 180 THEN normalizeBearing(bearing - 360)
    ELSE IF bearing < -180 THEN normalizeBearing(bearing + 360)
    ELSE bearing

\* the largest n with n * n <= k
RECURSIVE SqrtFrom(_, _, _)
SqrtFrom(k, lo, hi) ==
    IF lo >= hi THEN lo
    ELSE LET mid == (lo + hi + 1) \div 2
         IN  IF mid * mid <= k THEN SqrtFrom(k, mid, hi) ELSE SqrtFrom(k, lo, mid - 1)

ISqrt(k) == SqrtFrom(k, 0, 46340)

\* turf.distance, in centimetres
Distance(p, q) == ISqrt((q.x - p.x) * (q.x - p.x) + (q.y - p.y) * (q.y - p.y))

Cross(ux, uy, vx, vy) == ux * vy - uy * vx

Dot(ux, uy, vx, vy) == ux * vx + uy * vy

\* turf.distance, in whole metres
DistanceMetres(p, q) == Distance(p, q) \div 100

\* turf.bearing from p to q, for q on one of the Headings from p; 0 when
\* the two points coincide
Bearing(p, q) ==
    IF p.x = q.x /\ p.y = q.y THEN 0
    ELSE CHOOSE h \in Headings :
            /\ Cross(StepVector(h)[1], StepVector(h)[2], q.x - p.x, q.y - p.y) = 0
            /\ Dot(StepVector(h)[1], StepVector(h)[2], q.x - p.x, q.y - p.y) > 0

\* floor(q * c / d) for 0 <= q, 0 <= c < 4096, 0 < d < 2^24, without a
\* product beyond 2^31
MulDiv(q, c, d) ==
    LET k == q \div d
        r == q % d
        c1 == c \div 64
        c0 == c % 64
        k2 == (r * c1) \div d
        r2 == (r * c1) % d
    IN  k * c + k2 * 64 + (r2 * 64 + r * c0) \div d

(***************************************************************************)
(* calculateCircumradius, in centimetres: a b c / (4 area), where          *)
(* 4 area = 2 |cross|; 0 stands for null (area 0, collinear points).       *)
(***************************************************************************)
calculateCircumradius(p1, p2, p3) ==
    LET a == Distance(p1, p2)
        b == Distance(p2, p3)
        c == Distance(p3, p1)
        cross == Abs(Cross(p2.x - p1.x, p2.y - p1.y, p3.x - p1.x, p3.y - p1.y))
    IN  IF cross = 0 THEN 0
        ELSE IF (a * b) \div (2 * cross) > 2000 * 100 THEN 2000 * 100
        ELSE MulDiv(a * b, c, 2 * cross)

\* a sequence read with the code's 0-based index
At(seq, i) == seq[i + 1]

(***************************************************************************)
(* calculateRoutePointDistances: writes the cumulative distance into the   *)
(* points of the array it is given.                                        *)
(***************************************************************************)
RECURSIVE PathLength(_, _)
PathLength(points, i) ==
    IF i = 1 THEN 0
    ELSE PathLength(points, i - 1) + DistanceMetres(points[i - 1], points[i])

calculateRoutePointDistances(points) ==
    [i \in 1..Len(points) |-> [points[i] EXCEPT !.distance = PathLength(points, i)]]

(***************************************************************************)
(* interpolatePoint at ratio = metres / segmentDistance                    *)
(***************************************************************************)
interpolatePoint(point1, point2, metres, segmentDistance) ==
    [x |-> point1.x + ((point2.x - point1.x) * metres) \div segmentDistance,
     y |-> point1.y + ((point2.y - point1.y) * metres) \div segmentDistance,
     elevation |-> point1.elevation
                   + ((point2.elevation - point1.elevation) * metres) \div segmentDistance,
     distance |-> 0]

(***************************************************************************)
(* interpolatePoints: per leg, the leg's first point at the running        *)
(* distance, then one point every INTERPOLATION_DISTANCE; the running      *)
(* distance then takes the leg's remainder.  The last point of the route   *)
(* is pushed with the distance of the element pushed before it.            *)
(***************************************************************************)
RECURSIVE InterpolateFrom(_, _, _)
InterpolateFrom(points, i, cumulativeDistance) ==
    IF i >= Len(points) THEN <<>>
    ELSE
        LET currentPoint == points[i]
            nextPoint == points[i + 1]
            segmentDistance == DistanceMetres(currentPoint, nextPoint)
            numSegments == segmentDistance \div INTERPOLATION_DISTANCE
            leg == <<[currentPoint EXCEPT !.distance = cumulativeDistance]>>
                   \o [j \in 1..numSegments |->
                         [interpolatePoint(currentPoint, nextPoint,
                                           j * INTERPOLATION_DISTANCE, segmentDistance)
                            EXCEPT !.distance = cumulativeDistance
                                                + j * INTERPOLATION_DISTANCE]]
        IN  leg \o InterpolateFrom(points, i + 1,
                                   cumulativeDistance + numSegments * INTERPOLATION_DISTANCE
                                   + (segmentDistance - numSegments * INTERPOLATION_DISTANCE))

interpolatePoints(points) ==
    LET interpolated == InterpolateFrom(points, 1, 0)
        lastDistance == IF Len(interpolated) > 0
                        THEN interpolated[Len(interpolated)].distance ELSE 0
    IN  interpolated \o <<[points[Len(points)] EXCEPT !.distance = lastDistance]>>

(***************************************************************************)
(* calculateCurvatureProfile.  A radius is kept in whole metres; 9999      *)
(* where no window gives a circumradius in (0, 2000).                      *)
(***************************************************************************)
WindowSizes == <<5, 10, 15, 20>>

\* the circumradii, in centimetres, the windows give at the 0-based index i
WindowRadii(points, i) ==
    { calculateCircumradius(
          At(points, Max2(0, i - WindowSizes[w] \div INTERPOLATION_DISTANCE)),
          At(points, i),
          At(points, Min2(Len(points) - 1, i + WindowSizes[w] \div INTERPOLATION_DISTANCE))) :
        w \in { v \in 1..Len(WindowSizes) :
                  Min2(Len(points) - 1, i + WindowSizes[v] \div INTERPOLATION_DISTANCE)
                  - Max2(0, i - WindowSizes[v] \div INTERPOLATION_DISTANCE) >= 2 } }

ProfileRadius(points, i) ==
    LET radii == { r \in WindowRadii(points, i) : r > 0 /\ r < 2000 * 100 }
    IN  IF radii = {} THEN 9999
        ELSE (CHOOSE r \in radii : \A q \in radii : r <= q) \div 100

calculateCurvatureProfile(points) ==
    [k \in 1..Len(points) |->
        [idx |-> k - 1,
         radius |-> ProfileRadius(points, k - 1),
         bearing |-> IF k - 1 < Len(points) - 1
                     THEN Bearing(points[k], points[k + 1]) ELSE 0]]

(***************************************************************************)
(* The measurements analyzeCorner takes from the slice                     *)
(* points[startIdx .. endIdx]: the first half of                           *)
(* analyzeRadiusChangeInCorner (direction check, circumradii at            *)
(* i = 2, 4, ...), and the elevations.                                     *)
(***************************************************************************)
\* normalizeBearing(bearing(u) - bearing(w)) < 0: u points to the left of w
LeftOf(ux, uy, wx, wy) == Cross(wx, wy, ux, uy) > 0

\* |normalizeBearing(bearing(u) - bearing(w))| > 5, with tan 5 deg = 7/80
MoreThanFiveDegrees(ux, uy, wx, wy) ==
    LET c == Abs(Cross(wx, wy, ux, uy))
        d == Dot(wx, wy, ux, uy)
    IN  IF d <= 0 THEN c # 0 \/ d < 0 ELSE 80 * c > 7 * d

DirectionFlips(slice) ==
    IF Len(slice) < 9 THEN FALSE
    ELSE
        LET n == Len(slice)
            p0 == At(slice, 0)
            pMidStart == At(slice, Min2(3, n - 1))
            pMidEnd == At(slice, Max2(0, n - 4))
            pEnd == At(slice, n - 1)
            sx == pMidStart.x - p0.x
            sy == pMidStart.y - p0.y
            ex == pEnd.x - pMidEnd.x
            ey == pEnd.y - pMidEnd.y
            ox == pEnd.x - p0.x
            oy == pEnd.y - p0.y
        IN  /\ LeftOf(sx, sy, ox, oy) # LeftOf(ex, ey, ox, oy)
            /\ MoreThanFiveDegrees(sx, sy, ox, oy)
            /\ MoreThanFiveDegrees(ex, ey, ox, oy)

RECURSIVE SliceRadiiFrom(_, _)
SliceRadiiFrom(slice, i) ==
    IF i >= Len(slice) - 2 THEN <<>>
    ELSE LET radius == calculateCircumradius(At(slice, i - 2), At(slice, i), At(slice, i + 2))
         IN  (IF radius > 0 /\ radius < 1000 * 100 THEN <<radius \div 100>> ELSE <<>>)
             \o SliceRadiiFrom(slice, i + 2)

MeasureSegment(points, startIdx, endIdx) ==
    LET slice == SubSeq(points, startIdx + 1, endIdx + 1)
    IN  [elevations |-> [k \in 1..Len(slice) |-> slice[k].elevation],
         flips |-> DirectionFlips(slice),
         radii |-> IF Len(slice) < 9 THEN <<>> ELSE SliceRadiiFrom(slice, 2)]

(***************************************************************************)
(* findTurnStartPoint                                                      *)
(***************************************************************************)
\* the first index in startIdx..endIdx whose radius is at most num/10 of
\* target; none: <<>>
FirstWithin(cd, startIdx, endIdx, num, target) ==
    LET hits == { i \in startIdx..endIdx : 10 * At(cd, i).radius <= num * target }
    IN  IF hits = {} THEN <<>> ELSE <<CHOOSE i \in hits : \A j \in hits : i <= j>>

findTurnStartPoint_WindowStart(cd, startIdx, endIdx, avgRadius) == startIdx

findTurnStartPoint(cd, startIdx, endIdx, avgRadius) ==
    LET minRadius == MinSeq([k \in 1..(endIdx - startIdx + 1) |-> At(cd, startIdx + k - 1).radius])
        tight == IF avgRadius < SEVERITY_THRESHOLDS[2]
                 THEN FirstWithin(cd, startIdx, endIdx, 13, minRadius) ELSE <<>>
        medium == IF avgRadius < SEVERITY_THRESHOLDS[4]
                  THEN FirstWithin(cd, startIdx, endIdx, 12, avgRadius) ELSE <<>>
    IN  IF tight # <<>> THEN tight[1]
        ELSE IF medium # <<>> THEN medium[1]
        ELSE startIdx

(***************************************************************************)
(* identifySignificantCorners                                              *)
(***************************************************************************)
CURVED_THRESHOLD == SEVERITY_THRESHOLDS[6]

MIN_CORNER_ANGLE == 12

MIN_CORNER_POINTS == 5

STRAIGHT_LOOKBACK == 7

HAIRPIN_RADIUS_THRESHOLD == 50

MIN_HAIRPIN_ANGLE == 8

DirectionOf_Inverted(bearingChange) == IF bearingChange < 0 THEN "Right" ELSE "Left"

DirectionOf(bearingChange) == IF bearingChange < 0 THEN "Left" ELSE "Right"

\* the corner a closing branch pushes, if its angle reaches the threshold
DetectedCorner(cd, points, cornerStart, cornerEnd, cornerRadii, bearingStart, direction) ==
    LET bearingEnd == At(cd, cornerEnd).bearing
        totalAngle == Abs(normalizeBearing(bearingEnd - bearingStart))
        avgRadius == SumSeq(cornerRadii) \div Len(cornerRadii)
        minAngle == IF avgRadius < HAIRPIN_RADIUS_THRESHOLD
                    THEN MIN_HAIRPIN_ANGLE ELSE MIN_CORNER_ANGLE
        turnStartIdx == findTurnStartPoint(cd, cornerStart, cornerEnd, avgRadius)
    IN  IF totalAngle >= minAngle
        THEN <<[startIdx |-> cornerStart, endIdx |-> cornerEnd,
                position |-> At(points, turnStartIdx).distance,
                totalAngle |-> totalAngle, direction |-> direction,
                avgRadius |-> avgRadius,
                seg |-> MeasureSegment(points, cornerStart, cornerEnd)]>>
        ELSE <<>>

\* the split-corner lookahead: curvature resumes within checkDistance
\* samples of i, turning the way the corner turned
ResumesInSameDirection(cd, i, bearingEnd, bearingStart) ==
    LET n == Len(cd)
        currentDirection == normalizeBearing(bearingEnd - bearingStart)
    IN  \E k \in i..(Min2(i + 10, n) - 1) :
            /\ At(cd, k).radius < CURVED_THRESHOLD
            /\ LET futureBearing == At(cd, Min2(k + 5, n - 1)).bearing
                   futureDirection == normalizeBearing(futureBearing - At(cd, k).bearing)
               IN  \/ futureDirection < 0 /\ currentDirection < 0
                   \/ futureDirection > 0 /\ currentDirection > 0

\* one iteration of the loop, on the locals s, at sample s.i
SegmenterStep(cd, points, s) ==
    LET i == s.i
        radius == At(cd, i).radius
        bearing == At(cd, i).bearing
        next == [s EXCEPT !.i = i + 1]
        started == [next EXCEPT !.inCorner = TRUE, !.cornerStart = i,
                                !.cornerRadii = <<radius>>, !.bearingStart = bearing]
        pushed == [next EXCEPT !.cornerRadii = Append(@, radius)]
        closed == [next EXCEPT !.inCorner = FALSE, !.cornerRadii = <<>>]
    IN  IF ~s.inCorner
        THEN IF radius < CURVED_THRESHOLD THEN started ELSE next
        ELSE IF radius < CURVED_THRESHOLD
        THEN
            LET currentBearingChange == normalizeBearing(bearing - s.bearingStart)
                startDirection == DirectionOf(currentBearingChange)
                earlyBearing == At(cd, s.cornerStart + 3).bearing
                earlyChange == normalizeBearing(earlyBearing - s.bearingStart)
                earlyDirection == DirectionOf(earlyChange)
                cornerEnd == i - 1
                cornerLength == cornerEnd - s.cornerStart
            IN  IF /\ Len(s.cornerRadii) > 5
                   /\ earlyDirection # startDirection
                   /\ Abs(earlyChange) > 10
                THEN [started EXCEPT !.corners =
                        IF cornerLength >= MIN_CORNER_POINTS /\ Len(s.cornerRadii) > 0
                        THEN @ \o DetectedCorner(cd, points, s.cornerStart, cornerEnd,
                                                 s.cornerRadii, s.bearingStart,
                                                 earlyDirection)
                        ELSE @]
                ELSE pushed
        ELSE
            LET straightCount ==
                    Cardinality({ j \in i..(Min2(i + STRAIGHT_LOOKBACK, Len(cd)) - 1) :
                                    At(cd, j).radius >= CURVED_THRESHOLD })
                currentAvgRadius == IF Len(s.cornerRadii) > 0
                                    THEN SumSeq(s.cornerRadii) \div Len(s.cornerRadii)
                                    ELSE 999
                requiredStraight == IF currentAvgRadius < 80 THEN 6 ELSE 4
                cornerEnd == i - straightCount
                cornerLength == cornerEnd - s.cornerStart
                bearingEnd == At(cd, cornerEnd).bearing
                totalAngle == Abs(normalizeBearing(bearingEnd - s.bearingStart))
                avgRadius == SumSeq(s.cornerRadii) \div Len(s.cornerRadii)
                looksLikeSplitCorner == totalAngle >= 35 /\ totalAngle <= 55 /\ avgRadius < 80
            IN  IF straightCount >= requiredStraight
                THEN IF cornerLength >= MIN_CORNER_POINTS /\ Len(s.cornerRadii) > 0
                     THEN IF /\ looksLikeSplitCorner
                             /\ ResumesInSameDirection(cd, i, bearingEnd, s.bearingStart)
                          THEN pushed
                          ELSE [closed EXCEPT !.corners =
                                  @ \o DetectedCorner(cd, points, s.cornerStart, cornerEnd,
                                                      s.cornerRadii, s.bearingStart,
                                                      DirectionOf(normalizeBearing(
                                                          bearingEnd - s.bearingStart)))]
                     ELSE closed
                ELSE pushed

\* after the loop: the corner still open at the end of the route
EndOfRoute(cd, points, s) ==
    IF s.inCorner /\ Len(s.cornerRadii) >= MIN_CORNER_POINTS
    THEN LET cornerEnd == Len(cd) - 1
             bearingEnd == At(cd, cornerEnd).bearing
         IN  s.corners \o DetectedCorner(cd, points, s.cornerStart, cornerEnd,
                                         s.cornerRadii, s.bearingStart,
                                         DirectionOf(normalizeBearing(
                                             bearingEnd - s.bearingStart)))
    ELSE s.corners

(***************************************************************************)
(* detectInstantSharpTurns                                                 *)
(***************************************************************************)
RECURSIVE InstantTurnsFrom(_, _, _)
InstantTurnsFrom(cd, points, i) ==
    LET lookback == 3
    IN  IF i >= Len(cd) - lookback THEN <<>>
        ELSE
            LET bearingChange == normalizeBearing(At(cd, i + lookback).bearing
                                                  - At(cd, i - lookback).bearing)
                absBearingChange == Abs(bearingChange)
                localRadius == At(cd, i).radius
                startIdx == Max2(0, i - 2)
                endIdx == Min2(Len(cd) - 1, i + 2)
            IN  IF absBearingChange > 60 /\ localRadius < 100
                THEN <<[startIdx |-> startIdx, endIdx |-> endIdx,
                        position |-> At(points, i).distance,
                        totalAngle |-> absBearingChange,
                        direction |-> DirectionOf(bearingChange),
                        avgRadius |-> localRadius,
                        seg |-> MeasureSegment(points, startIdx, endIdx)]>>
                     \o InstantTurnsFrom(cd, points, i + lookback + 1)
                ELSE InstantTurnsFrom(cd, points, i + 1)

detectInstantSharpTurns(cd, points) == InstantTurnsFrom(cd, points, 3)

(***************************************************************************)
(* processRoute, from its call to the detectors' results                   *)
(***************************************************************************)
\* the guard on the resampled points
TooFewPoints_OffByOne(interpolated) == Len(interpolated) <= 10

TooFewPoints(interpolated) == Len(interpolated) < 10

\* the guard on the input: fewer than 2 points
RejectRoute ==
    /\ pc = "called"
    /\ Len(rawPoints) < 2
    /\ paceNotes' = <<>>
    /\ pc' = "returned"
    /\ UNCHANGED <<totalDistance, cornerSegments, instantTurns, uniqueCorners,
                   mergedNotes, mergeLog>>
    /\ UNCHANGED routeVars
    /\ UNCHANGED app

\* steps 1 and 2, and the return on too few resampled points
Resample ==
    /\ pc = "called"
    /\ Len(rawPoints) >= 2
    /\ rawPoints' = calculateRoutePointDistances(rawPoints)
    /\ interpolatedPoints' = interpolatePoints(rawPoints')
    /\ IF TooFewPoints(interpolatedPoints')
       THEN paceNotes' = <<>> /\ pc' = "returned"
       ELSE paceNotes' = paceNotes /\ pc' = "resampled"
    /\ UNCHANGED <<totalDistance, cornerSegments, instantTurns, uniqueCorners,
                   mergedNotes, mergeLog, curvatureData, scan>>
    /\ UNCHANGED app

\* step 3
Profile ==
    /\ pc = "resampled"
    /\ curvatureData' = calculateCurvatureProfile(interpolatedPoints)
    /\ scan' = NotScanning
    /\ pc' = "profiled"
    /\ UNCHANGED <<notesVars, rawPoints, interpolatedPoints>>
    /\ UNCHANGED app

\* step 4, one iteration of the loop of identifySignificantCorners
SegmentStep ==
    /\ pc = "profiled"
    /\ scan.i < Len(curvatureData)
    /\ scan' = SegmenterStep(curvatureData, interpolatedPoints, scan)
    /\ UNCHANGED <<pc, notesVars, rawPoints, interpolatedPoints, curvatureData>>
    /\ UNCHANGED app

\* step 4, after the loop
SegmentEnd ==
    /\ pc = "profiled"
    /\ scan.i = Len(curvatureData)
    /\ cornerSegments' = EndOfRoute(curvatureData, interpolatedPoints, scan)
    /\ pc' = "segmented"
    /\ UNCHANGED <<totalDistance, instantTurns, uniqueCorners, paceNotes,
                   mergedNotes, mergeLog>>
    /\ UNCHANGED routeVars
    /\ UNCHANGED app

\* step 4.5
DetectInstant ==
    /\ pc = "segmented"
    /\ instantTurns' = detectInstantSharpTurns(curvatureData, interpolatedPoints)
    /\ pc' = "detected"
    /\ UNCHANGED <<totalDistance, cornerSegments, uniqueCorners, paceNotes,
                   mergedNotes, mergeLog>>
    /\ UNCHANGED routeVars
    /\ UNCHANGED app

(***************************************************************************)
(* Resampled routes with two bends.  A route runs straight for lead        *)
(* steps, turns by d1 degrees at each of n1 steps, then by d2 degrees at   *)
(* each of n2 steps, and runs straight for LeadOut steps; every step is    *)
(* INTERPOLATION_DISTANCE long.  d1 and d2 of opposite signs make an       *)
(* S-shape, of one sign a single bend whose radius changes.                *)
(***************************************************************************)
MaxBendSteps == 6

LeadIns == {0, 8}

LeadOut == 14

TurnRates == {-15, -5, 5, 15}

BendHeadings(lead, n1, d1, n2, d2) ==
    [k \in 1..lead |-> 0]
    \o [k \in 1..n1 |-> k * d1]
    \o [k \in 1..n2 |-> n1 * d1 + k * d2]
    \o [k \in 1..LeadOut |-> n1 * d1 + n2 * d2]

\* the points of the steps of the given headings, from the point p
RECURSIVE Walk(_, _)
Walk(p, headings) ==
    IF headings = <<>> THEN <<p>>
    ELSE <<p>> \o Walk([x |-> p.x + StepVector(Head(headings))[1],
                        y |-> p.y + StepVector(Head(headings))[2],
                        elevation |-> 0,
                        distance |-> p.distance + INTERPOLATION_DISTANCE],
                       Tail(headings))

Origin == [x |-> 0, y |-> 0, elevation |-> 0, distance |-> 0]

InitRoute ==
    /\ pc = "resampled"
    /\ \E lead \in LeadIns, n1 \in 1..MaxBendSteps, n2 \in 0..MaxBendSteps,
          d1 \in TurnRates, d2 \in TurnRates :
          /\ interpolatedPoints = Walk(Origin, BendHeadings(lead, n1, d1, n2, d2))
          /\ totalDistance = (lead + n1 + n2 + LeadOut) * INTERPOLATION_DISTANCE
    /\ rawPoints = <<>>
    /\ curvatureData = <<>>
    /\ scan = NotScanning
    /\ cornerSegments = <<>>
    /\ instantTurns = <<>>
    /\ uniqueCorners = <<>>
    /\ paceNotes = <<>>
    /\ mergedNotes = <<>>
    /\ mergeLog = <<>>
    /\ app = NoApp

NextRoute ==
    Profile \/ SegmentStep \/ SegmentEnd \/ DetectInstant \/ Deduplicate \/ Assemble

SpecRoute == InitRoute /\ [][NextRoute]_vars

\* the degrees the bearing rotates to the left, and to the right, over the
\* steps of the corner's window
RECURSIVE Rotation(_, _, _)
Rotation(from, to, sign) ==
    IF from >= to THEN 0
    ELSE LET turn == normalizeBearing(At(curvatureData, from + 1).bearing
                                      - At(curvatureData, from).bearing)
         IN  (IF turn * sign > 0 THEN Abs(turn) ELSE 0) + Rotation(from + 1, to, sign)

\* the window of the corner holds a bend to the left and a bend to the right
SShaped(corner) ==
    /\ Rotation(corner.startIdx, corner.endIdx, -1) >= 10
    /\ Rotation(corner.startIdx, corner.endIdx, 1) >= 10

HasRadiusChange(note) ==
    \E m \in 1..Len(note.modifiers) : note.modifiers[m].type \in {"tightens", "widens"}

\* when every corner gave a note, the note of uniqueCorners[k]
NoteOfCorner(k) ==
    IF uniqueCorners[1].position < 50 THEN paceNotes[k] ELSE paceNotes[k + 1]

\* C5: no note of an S-shaped corner window carries a tightens or widens
\* modifier; the segmenter has split the S-shape, or the radius-change
\* analysis has reported no change for it.
C5_SShapeHasNoRadiusChange ==
    (pc = "returned" /\ Len(paceNotes) >= Len(uniqueCorners) + 1) =>
        \A k \in 1..Len(uniqueCorners) :
            SShaped(uniqueCorners[k]) => ~HasRadiusChange(NoteOfCorner(k))

(***************************************************************************)
(* Raw routes, as the routing service hands them to processRoute: up to    *)
(* MaxRawPoints points, each leg running north or east for a whole number  *)
(* of metres; a point's distance field holds its index, and totalDistance  *)
(* is the length of the path.                                              *)
(***************************************************************************)
MaxRawPoints == 4

RawHeadings == {0, 90}

LegLengths == {2, 9, 13}

\* the raw points of the legs <<heading, metres>>, from the point p
RECURSIVE RawWalk(_, _)
RawWalk(p, legs) ==
    IF legs = <<>> THEN <<p>>
    ELSE LET heading == Head(legs)[1]
             metres == Head(legs)[2]
         IN  <<p>> \o RawWalk([x |-> p.x + (StepVector(heading)[1] \div INTERPOLATION_DISTANCE) * metres,
                               y |-> p.y + (StepVector(heading)[2] \div INTERPOLATION_DISTANCE) * metres,
                               elevation |-> 0,
                               distance |-> p.distance + 1],
                              Tail(legs))

InitRaw ==
    /\ pc = "called"
    /\ \E n \in 0..MaxRawPoints :
          IF n = 0 THEN rawPoints = <<>> /\ totalDistance = 0
          ELSE \E legs \in [1..(n - 1) -> RawHeadings \X LegLengths] :
                  /\ rawPoints = RawWalk(Origin, legs)
                  /\ totalDistance = SumSeq([k \in 1..(n - 1) |-> legs[k][2]])
    /\ interpolatedPoints = <<>>
    /\ curvatureData = <<>>
    /\ scan = NotScanning
    /\ cornerSegments = <<>>
    /\ instantTurns = <<>>
    /\ uniqueCorners = <<>>
    /\ paceNotes = <<>>
    /\ mergedNotes = <<>>
    /\ mergeLog = <<>>
    /\ app = NoApp

NextRaw ==
    \/ RejectRoute
    \/ Resample
    \/ Profile
    \/ SegmentStep
    \/ SegmentEnd
    \/ DetectInstant
    \/ Deduplicate
    \/ Assemble

SpecRaw == InitRaw /\ [][NextRaw]_vars

\* the number of points resampling yields for the route
ResampledCount == Len(interpolatePoints(rawPoints))

\* C10: processRoute has returned the empty list exactly when the route has
\* fewer than 2 points or its resampling yields fewer than 10 points; for
\* every other route the returned list is not empty.
C10_EmptyIffTooShort ==
    pc = "returned" =>
        (paceNotes = <<>> <=> (Len(rawPoints) < 2 \/ ResampledCount < 10))

\* a route of at least 2 points, resampled to fewer than 10, has returned
\* the empty list
C10_Witness ==
    /\ pc = "returned"
    /\ Len(rawPoints) >= 2
    /\ ResampledCount < 10
    /\ paceNotes = <<>>

(***************************************************************************)
(* Claims about the notes of a whole run                                   *)
(***************************************************************************)
\* processRoute went past its two guards and returned
Processed == pc = "returned" /\ ~TooFewPoints(interpolatedPoints)

NoCandidate == cornerSegments = <<>> /\ instantTurns = <<>>

\* C11: when neither detector found a candidate, the output is exactly
\* [Start, Finish]: Start at position 0 with distanceToNext the route's total
\* distance, Finish at the total distance with distanceToNext null.
C11_StraightRouteIsStartFinish ==
    (Processed /\ NoCandidate) =>
        /\ Len(paceNotes) = 2
        /\ paceNotes[1].type = "Straight"
        /\ paceNotes[1].position = 0
        /\ paceNotes[1].distanceToNext = <<totalDistance>>
        /\ paceNotes[2].severity = "FINISH"
        /\ paceNotes[2].position = totalDistance
        /\ paceNotes[2].distanceToNext = <<>>

\* a route of at least 10 resampled points without a candidate has returned
C11_Witness ==
    /\ Processed
    /\ NoCandidate
    /\ Len(rawPoints) >= 3
    /\ totalDistance % 10 # 0
    /\ Len(paceNotes) = 2

\* the first deduplicated candidate lies within 50 of the start and yields a note
FirstCornerIsStart ==
    /\ Len(uniqueCorners) > 0
    /\ uniqueCorners[1].position < 50
    /\ analyzeCorner(uniqueCorners[1]) # <<>>

\* the first note stands at 0, the last note is the only FINISH note, and no
\* note after the first is a synthetic Start
StartAndFinishOnce ==
    /\ paceNotes[1].position = 0
    /\ paceNotes[Len(paceNotes)].severity = "FINISH"
    /\ \A i \in 1..(Len(paceNotes) - 1) : paceNotes[i].severity # "FINISH"
    /\ \A i \in 2..Len(paceNotes) : paceNotes[i].type # "Straight"

\* the first corner's note, repositioned to 0, is the first note; there is
\* no synthetic Start; every other corner gives the one note after it
FirstCornerReplacesStart ==
    IF FirstCornerIsStart
    THEN /\ paceNotes[1].type # "Straight"
         /\ paceNotes[1].direction = uniqueCorners[1].direction
         /\ paceNotes[1].severity = analyzeCorner(uniqueCorners[1])[1].severity
         /\ paceNotes[1].modifiers = analyzeCorner(uniqueCorners[1])[1].modifiers
         /\ Len(paceNotes) = Len(uniqueCorners) + 1
         /\ \A k \in 2..Len(uniqueCorners) :
               /\ paceNotes[k].direction = uniqueCorners[k].direction
               /\ paceNotes[k].position = roundDistance(uniqueCorners[k].position)
    ELSE /\ paceNotes[1].type = "Straight"
         /\ Len(paceNotes) = Len(uniqueCorners) + 2

C13_InputUnchanged == [][rawPoints' = rawPoints]_vars

(***************************************************************************)
(* Claims about the classification of a corner                             *)
(***************************************************************************)
\* the rule as documented: the numeric class of the radius first, then the
\* special labels by angle and class
DocumentedSeverity(radius, totalAngle) ==
    LET class == IF radius < 20 THEN 1 ELSE IF radius < 40 THEN 2
                 ELSE IF radius < 70 THEN 3 ELSE IF radius < 120 THEN 4
                 ELSE IF radius < 200 THEN 5 ELSE 6
    IN  IF totalAngle >= 150 /\ totalAngle <= 180 /\ class <= 2 THEN "Hairpin"
        ELSE IF totalAngle >= 75 /\ totalAngle <= 105 /\ class <= 3 THEN "Square"
        ELSE IF totalAngle > 25 /\ totalAngle < 60 /\ class <= 3 THEN "Acute"
        ELSE NumberToSeverity(class)

\* C14: the severity of every corner note is the documented one for its
\* entry radius and total angle.
C14_SeverityAsDocumented ==
    Classified =>
        \A k \in 1..Len(uniqueCorners) :
            paceNotes[k + 1].severity =
                DocumentedSeverity(EntryRadius(uniqueCorners[k]),
                                   uniqueCorners[k].totalAngle)

HasModifier(note, type) ==
    \E m \in 1..Len(note.modifiers) : note.modifiers[m].type = type

\* the angle above which a corner of the numeric class is Long, as documented
DocumentedLongThreshold(class) ==
    IF class <= 2 THEN 110 ELSE IF class <= 4 THEN 75 ELSE 45

\* C15: the length modifier depends on the severity: a corner note of plain
\* numeric severity is Long exactly above 110 degrees for severities 1-2,
\* above 75 for 3-4 and above 45 for 5-6, and a note of severity 1-2 is
\* Short exactly below 35.
C15_LengthModifierBySeverity ==
    Classified =>
        \A k \in 1..Len(uniqueCorners) :
            LET note == paceNotes[k + 1]
                class == SeverityToNumber(note.severity)
                angle == uniqueCorners[k].totalAngle
            IN  IsNumber(note.severity) =>
                    /\ HasModifier(note, "Long") <=> angle > DocumentedLongThreshold(class)
                    /\ class <= 2 => (HasModifier(note, "Short") <=> angle < 35)

\* C16: a corner note carries Caution whenever the numeric class of its
\* entry radius is at most 2 or its label is Hairpin, Heavy Braking whenever
\* it has the Jump hazard, and Blind whenever it has the Crest hazard.
C16_AdviceAsDocumented ==
    Classified =>
        \A k \in 1..Len(uniqueCorners) :
            LET note == paceNotes[k + 1]
                class == mapRadiusToMcRae(EntryRadius(uniqueCorners[k]))
            IN  /\ (class <= 2 \/ note.severity = "Hairpin")
                      => "Caution" \in Range(note.advice)
                /\ "Jump" \in Range(note.hazards)
                      => "Heavy Braking" \in Range(note.advice)
                /\ "Crest" \in Range(note.hazards)
                      => "Blind" \in Range(note.advice)

(***************************************************************************)
(* Claims about removeDuplicateCorners                                     *)
(***************************************************************************)
Deduplicated == pc \in {"deduplicated", "returned", "merged"}

\* the position-sorted pool of the two detectors' candidates
AllCorners == SortByPosition(cornerSegments \o instantTurns)

\* C17: after deduplication no two retained candidates have the same
\* direction and positions less than 20 apart.
C17_RetainedAreApart ==
    Deduplicated =>
        \A i, j \in 1..Len(uniqueCorners) :
            (i # j /\ uniqueCorners[i].direction = uniqueCorners[j].direction)
                => Abs(uniqueCorners[i].position - uniqueCorners[j].position) >= 20

\* candidates were dropped, and two candidates of one direction are retained
C17_Witness ==
    /\ Deduplicated
    /\ Len(uniqueCorners) < Len(AllCorners)
    /\ \E i, j \in 1..Len(uniqueCorners) :
          i # j /\ uniqueCorners[i].direction = uniqueCorners[j].direction

\* for each retained slot, the candidates dropped in its favour: the
\* occupants it replaced and the duplicates that did not replace it
RECURSIVE DroppedInFavour(_)
DroppedInFavour(corners) ==
    IF corners = <<>> THEN <<>>
    ELSE LET earlier == SubSeq(corners, 1, Len(corners) - 1)
             unique == removeDuplicateCorners(earlier)
             dropped == DroppedInFavour(earlier)
             corner == corners[Len(corners)]
             duplicateIdx == DuplicateIdx(unique, corner)
             kept == KeepOrReplace(unique, corner)
         IN  IF duplicateIdx = 0 THEN Append(dropped, {})
             ELSE [dropped EXCEPT ![duplicateIdx] =
                      @ \cup ({unique[duplicateIdx], corner} \ {kept[duplicateIdx]})]

\* C18: the retained candidate has a total angle at least as large, or a
\* radius at least as tight, as every candidate dropped in its favour, also
\* across successive replacements of its slot.
C18_RetainedIsSharpest ==
    Deduplicated =>
        \A k \in 1..Len(uniqueCorners) :
            \A c \in DroppedInFavour(AllCorners)[k] :
                \/ uniqueCorners[k].totalAngle >= c.totalAngle
                \/ uniqueCorners[k].avgRadius <= c.avgRadius

(***************************************************************************)
(* Claims about identifySignificantCorners                                 *)
(***************************************************************************)
OnlyCurvedAccumulated ==
    \A k \in 1..Len(scan.cornerRadii) : scan.cornerRadii[k] < CURVED_THRESHOLD

RegisteredAreCurved ==
    /\ \A k \in 1..Len(scan.corners) : scan.corners[k].avgRadius < CURVED_THRESHOLD
    /\ \A k \in 1..Len(cornerSegments) : cornerSegments[k].avgRadius < CURVED_THRESHOLD

\* C19: the radius list of the corner being scanned holds only radii below
\* the curved threshold, and every registered sustained corner has an
\* average radius below it.
C19_OnlyCurvedSamples == OnlyCurvedAccumulated /\ RegisteredAreCurved

(***************************************************************************)
(* Resampled routes with a slight kink after a bend: a straight lead-in, a *)
(* bend of one vertex onto heading 0, a straight gap, then a deviation of  *)
(* a few degrees that lasts (or, for 0 steps, stays to the end), and a     *)
(* straight lead-out.                                                      *)
(***************************************************************************)
MaxGap == 8

KinkLeadIn == 8

KinkBends == {5, 10, 15}

KinkSteps == 0..2

KinkHeadings(d1, g, t, n) ==
    [k \in 1..KinkLeadIn |-> -d1]
    \o [k \in 1..g |-> 0]
    \o [k \in 1..n |-> t]
    \o [k \in 1..LeadOut |-> IF n = 0 THEN t ELSE 0]

InitKink ==
    /\ pc = "resampled"
    /\ \E d1 \in KinkBends, g \in 1..MaxGap, t \in FineHeadings, n \in KinkSteps :
          /\ interpolatedPoints = Walk(Origin, KinkHeadings(d1, g, t, n))
          /\ totalDistance = (KinkLeadIn + g + n + LeadOut) * INTERPOLATION_DISTANCE
    /\ rawPoints = <<>>
    /\ curvatureData = <<>>
    /\ scan = NotScanning
    /\ cornerSegments = <<>>
    /\ instantTurns = <<>>
    /\ uniqueCorners = <<>>
    /\ paceNotes = <<>>
    /\ mergedNotes = <<>>
    /\ mergeLog = <<>>
    /\ app = NoApp

SpecKink == InitKink /\ [][NextRoute]_vars

\* the run length the corner scanned so far requires to be closed
RequiredStraight ==
    IF Len(scan.cornerRadii) > 0
       /\ SumSeq(scan.cornerRadii) \div Len(scan.cornerRadii) < 80
    THEN 6 ELSE 4

\* sample i and the n - 1 samples after it are all straight
StraightRunAt(i, n) ==
    \A j \in i..(i + n - 1) :
        j < Len(curvatureData) /\ At(curvatureData, j).radius >= CURVED_THRESHOLD

\* the step at a straight sample that leaves the corner
ClosedByStraight ==
    /\ pc = "profiled"
    /\ scan.inCorner
    /\ scan.i < Len(curvatureData)
    /\ At(curvatureData, scan.i).radius >= CURVED_THRESHOLD
    /\ ~scan'.inCorner

\* C20: a corner is closed at a straight sample only when that sample begins
\* a run of consecutive straight samples of the required length, 6 when the
\* corner's average radius so far is under 80 and 4 otherwise.
C20_ClosedByConsecutiveRun ==
    [][ClosedByStraight => StraightRunAt(scan.i, RequiredStraight)]_vars

\* the direction guard fires at the sample to be scanned: the sample is
\* curved, more than 5 radii are accumulated, and the side the bearing had
\* turned to 3 samples into the corner (by more than 10 degrees) is not the
\* side it has turned to now
EarlyChange ==
    normalizeBearing(At(curvatureData, scan.cornerStart + 3).bearing - scan.bearingStart)

FlipDetected ==
    /\ pc = "profiled"
    /\ scan.inCorner
    /\ scan.i < Len(curvatureData)
    /\ At(curvatureData, scan.i).radius < CURVED_THRESHOLD
    /\ Len(scan.cornerRadii) > 5
    /\ Abs(EarlyChange) > 10
    /\ (EarlyChange < 0)
         # (normalizeBearing(At(curvatureData, scan.i).bearing - scan.bearingStart) < 0)

\* C21: when the direction guard fires at sample i, the corner registered (if
\* any) is the current one, from its start to sample i - 1, with the direction
\* it had early on, and a new corner is open from sample i with the radius and
\* the bearing of sample i only.
C21_FlipSplitsAtSample ==
    [][FlipDetected =>
        /\ scan'.inCorner
        /\ scan'.cornerStart = scan.i
        /\ scan'.cornerRadii = <<At(curvatureData, scan.i).radius>>
        /\ scan'.bearingStart = At(curvatureData, scan.i).bearing
        /\ \/ scan'.corners = scan.corners
           \/ /\ Len(scan'.corners) = Len(scan.corners) + 1
              /\ SubSeq(scan'.corners, 1, Len(scan.corners)) = scan.corners
              /\ LET closed == scan'.corners[Len(scan'.corners)]
                 IN  /\ closed.startIdx = scan.cornerStart
                     /\ closed.endIdx = scan.i - 1
                     /\ closed.direction = (IF EarlyChange < 0 THEN "Left" ELSE "Right")]_vars

\* a corner was registered up to the sample before the one the open corner
\* starts at: the guard has split them
C21_Witness ==
    /\ pc = "profiled"
    /\ scan.inCorner
    /\ Len(scan.corners) > 0
    /\ scan.corners[Len(scan.corners)].endIdx = scan.cornerStart - 1

\* the corner open when the scan has reached the end of the route, as the
\* registration check of a corner closed mid-route would judge it: the span
\* from its first sample to the last sample, and the bearing change from its
\* first sample to the bearing of travel of the last step
OpenAtEnd == scan.inCorner /\ scan.i = Len(curvatureData)

EndSpan == (Len(curvatureData) - 1) - scan.cornerStart

EndTravelAngle ==
    Abs(normalizeBearing(At(curvatureData, Len(curvatureData) - 2).bearing
                         - scan.bearingStart))

EndMinAngle ==
    IF SumSeq(scan.cornerRadii) \div Len(scan.cornerRadii) < HAIRPIN_RADIUS_THRESHOLD
    THEN MIN_HAIRPIN_ANGLE ELSE MIN_CORNER_ANGLE

EndRegistered == Len(cornerSegments) = Len(scan.corners) + 1

\* C22: a corner open at the end of the route is registered exactly when its
\* index span is at least 5 and the bearing change from its first sample to
\* the bearing of travel at the end reaches the minimum angle, and that
\* bearing change is its total angle.
C22_EndOfRouteSameCheck ==
    (pc = "segmented" /\ OpenAtEnd) =>
        /\ EndRegistered <=> (EndSpan >= MIN_CORNER_POINTS /\ EndTravelAngle >= EndMinAngle)
        /\ EndRegistered => cornerSegments[Len(cornerSegments)].totalAngle = EndTravelAngle

(***************************************************************************)
(* Claims about detectInstantSharpTurns                                    *)
(***************************************************************************)
\* the bearing of travel at sample j: of the step that leaves it, and for the
\* last sample of the step that reaches it
TravelBearing(j) ==
    IF j = Len(curvatureData) - 1
    THEN At(curvatureData, j - 1).bearing
    ELSE At(curvatureData, j).bearing

\* the sample an instant-turn candidate was detected at
InstantSample(turn) == turn.startIdx + 2

\* C23: every instant-turn candidate stands at a sample i with a radius under
\* 100 around which the bearing of travel changes by more than 60 degrees
\* between samples i - 3 and i + 3, and two candidates are at least 4 samples
\* apart.
C23_InstantTurnIsReal ==
    (pc \in {"detected", "deduplicated", "returned"} /\ curvatureData # <<>>) =>
        /\ \A k \in 1..Len(instantTurns) :
              LET i == InstantSample(instantTurns[k])
              IN  /\ At(curvatureData, i).radius < 100
                  /\ Abs(normalizeBearing(TravelBearing(i + 3) - TravelBearing(i - 3))) > 60
        /\ \A k, l \in 1..Len(instantTurns) :
              k < l => InstantSample(instantTurns[l]) - InstantSample(instantTurns[k]) >= 4

(***************************************************************************)
(* Claims about findTurnStartPoint                                         *)
(***************************************************************************)
Segmented ==
    /\ pc \in {"segmented", "detected", "deduplicated", "returned"}
    /\ curvatureData # <<>>

Window(corner) == corner.startIdx..corner.endIdx

WindowMinRadius(corner) ==
    CHOOSE r \in { At(curvatureData, i).radius : i \in Window(corner) } :
        \A i \in Window(corner) : r <= At(curvatureData, i).radius

\* sample i is the first of the corner's window with 10 * radius <= bound
FirstAtMost(corner, i, bound) ==
    /\ i \in Window(corner)
    /\ 10 * At(curvatureData, i).radius <= bound
    /\ \A j \in Window(corner) : j < i => 10 * At(curvatureData, j).radius > bound

\* sample i is the one the documented rule positions the corner at
DocumentedTurnStart(corner, i) ==
    IF corner.avgRadius < 40 THEN FirstAtMost(corner, i, 13 * WindowMinRadius(corner))
    ELSE IF corner.avgRadius < 120 THEN FirstAtMost(corner, i, 12 * corner.avgRadius)
    ELSE i = corner.startIdx

Resampled == pc # "called" /\ interpolatedPoints # <<>>

\* C25: the distance of the resampled points starts at 0 and strictly
\* increases from each point to the next, by at most one step.
C25_DistanceStrictlyIncreases ==
    Resampled =>
        /\ interpolatedPoints[1].distance = 0
        /\ \A k \in 1..(Len(interpolatedPoints) - 1) :
              /\ interpolatedPoints[k].distance < interpolatedPoints[k + 1].distance
              /\ interpolatedPoints[k + 1].distance
                   <= interpolatedPoints[k].distance + INTERPOLATION_DISTANCE

\* C29: the distance of the last resampled point is the sum of the lengths
\* of the raw segments.
C29_LastDistanceIsRouteLength ==
    Resampled =>
        interpolatedPoints[Len(interpolatedPoints)].distance
            = PathLength(rawPoints, Len(rawPoints))

(***************************************************************************)
(* Special labels in the chicane merger                                    *)
(***************************************************************************)
SpecialLabels == {"Square", "Acute"}

\* the four rules, on the numeric severities
EligiblePair(a, b) ==
    /\ Abs(b.position - a.position) <= 40
    /\ NumericSeverity(a) # 1
    /\ NumericSeverity(b) # 1
    /\ Abs(NumericSeverity(a) - NumericSeverity(b)) <= 3
    /\ a.direction \in Directions
    /\ b.direction \in Directions

C27_WindowsWellFormed ==
    Segmented =>
        /\ \A k \in 1..Len(cornerSegments) :
              /\ 0 <= cornerSegments[k].startIdx
              /\ cornerSegments[k].startIdx <= cornerSegments[k].endIdx
              /\ cornerSegments[k].endIdx <= Len(curvatureData) - 1
              /\ cornerSegments[k].endIdx - cornerSegments[k].startIdx >= MIN_CORNER_POINTS
        /\ \A k \in 1..(Len(cornerSegments) - 1) :
              cornerSegments[k].endIdx < cornerSegments[k + 1].startIdx

(***************************************************************************)
(* Resampled switchback routes: the route starts in a tight loop of 30     *)
(* degrees a step and leaves it through a bend of 20 degrees a step the    *)
(* other way, then runs straight.                                          *)
(***************************************************************************)
LoopSteps == 5..7

LoopRates == {-30, 30}

CounterRates == {-20, 20}

InitSwitchback ==
    /\ pc = "resampled"
    /\ \E n1 \in LoopSteps, n2 \in LoopSteps, d1 \in LoopRates, d2 \in CounterRates :
          /\ interpolatedPoints = Walk(Origin, BendHeadings(0, n1, d1, n2, d2))
          /\ totalDistance = (n1 + n2 + LeadOut) * INTERPOLATION_DISTANCE
    /\ rawPoints = <<>>
    /\ curvatureData = <<>>
    /\ scan = NotScanning
    /\ cornerSegments = <<>>
    /\ instantTurns = <<>>
    /\ uniqueCorners = <<>>
    /\ paceNotes = <<>>
    /\ mergedNotes = <<>>
    /\ mergeLog = <<>>
    /\ app = NoApp

SpecSwitchback == InitSwitchback /\ [][NextRoute]_vars

(***************************************************************************)
(* The target of a radius-change modifier                                  *)
(***************************************************************************)
\* C28: in every note, the number after 'tightens' is smaller than the note's
\* numeric severity (its turnNumber), and the number after 'widens' is larger.
C28_TargetConsistentWithSeverity ==
    pc = "returned" =>
        \A k \in 1..Len(paceNotes) :
            \A m \in 1..(Len(paceNotes[k].modifiers) - 1) :
                LET target == paceNotes[k].modifiers[m + 1].to
                IN  /\ paceNotes[k].modifiers[m].type = "tightens"
                          => target < paceNotes[k].turnNumber
                    /\ paceNotes[k].modifiers[m].type = "widens"
                          => target > paceNotes[k].turnNumber

(***************************************************************************)
(* The application shell: App.tsx around the route request                 *)
(***************************************************************************)
\* the cap on the route requests one behaviour issues
MaxRequests == 3

\* null, for a point, a route or an error message
Null == "null"

\* the places a click, a search result or the geolocation can hand over
Points == {"p1", "p2"}

\* the messages GraphHopperService.getRoute throws
RequestErrors == {"Invalid GraphHopper API key. Please check your configuration.",
                  "No route found between the specified points.",
                  "Failed to fetch route from GraphHopper"}

\* the routes the service answers with
Routes == {"route1", "route2"}

\* RouteProcessor.processRoute(route), as the list kept in state.paceNotes:
\* the pipeline is the subject of the other specifications, here only the
\* route the notes were made from matters
NotesOf(route) == <<route>>

\* useState's initial AppState; inFlight counts the getRoute promises not yet
\* settled, requests the getRoute calls made so far
InitialAppState ==
    [route |-> Null, paceNotes |-> <<>>, loading |-> FALSE, error |-> Null,
     startPoint |-> Null, endPoint |-> Null, mapMode |-> "select-start",
     inFlight |-> 0, requests |-> 0]

InitApp ==
    /\ app = InitialAppState
    /\ pc = "idle"
    /\ totalDistance = 0
    /\ rawPoints = <<>>
    /\ interpolatedPoints = <<>>
    /\ curvatureData = <<>>
    /\ scan = NotScanning
    /\ cornerSegments = <<>>
    /\ instantTurns = <<>>
    /\ uniqueCorners = <<>>
    /\ paceNotes = <<>>
    /\ mergedNotes = <<>>
    /\ mergeLog = <<>>

\* handlePointSelect(point, type)
handlePointSelect(state, point, type) ==
    IF type = "start"
    THEN [state EXCEPT !.startPoint = point, !.error = Null]
    ELSE [state EXCEPT !.endPoint = point, !.error = Null]

\* handleModeChange(mode)
handleModeChange(state, mode) == [state EXCEPT !.mapMode = mode]

\* InteractiveMapViewer's handleMapClick (and handleSearchSelect, which does
\* the same): the point goes to the end the mode asks for, the mode moves on;
\* in view-route a click selects nothing
handleMapClick ==
    /\ app.mapMode \in {"select-start", "select-end"}
    /\ \E point \in Points :
          app' = IF app.mapMode = "select-start"
                 THEN handleModeChange(handlePointSelect(app, point, "start"), "select-end")
                 ELSE handleModeChange(handlePointSelect(app, point, "end"), "view-route")
    /\ UNCHANGED <<pc, notesVars, routeVars>>

\* resetRoute, behind the 'New Route' and 'Reset Route' buttons, which are
\* rendered once a point is selected; loading is left as it is
resetRoute ==
    /\ app.startPoint # Null \/ app.endPoint # Null
    /\ app' = [app EXCEPT !.startPoint = Null, !.endPoint = Null, !.route = Null,
                          !.paceNotes = <<>>, !.mapMode = "select-start",
                          !.error = Null]
    /\ UNCHANGED <<pc, notesVars, routeVars>>

\* the condition of the auto-generate effect
ShouldGenerate(state) ==
    /\ state.startPoint # Null
    /\ state.endPoint # Null
    /\ state.mapMode = "view-route"
    /\ state.route = Null
    /\ ~state.loading

\* the auto-generate effect calling generateRoute, up to the await: the state
\* is cleared, loading is set and getRoute is called
generateRoute ==
    /\ ShouldGenerate(app)
    /\ app.requests < MaxRequests
    /\ app' = [app EXCEPT !.loading = TRUE, !.error = Null, !.route = Null,
                          !.paceNotes = <<>>,
                          !.inFlight = @ + 1, !.requests = @ + 1]
    /\ UNCHANGED <<pc, notesVars, routeVars>>

\* generateRoute after the await, getRoute having answered with a route
RouteArrives ==
    /\ app.inFlight > 0
    /\ \E route \in Routes :
          app' = [app EXCEPT !.route = route, !.paceNotes = NotesOf(route),
                             !.loading = FALSE, !.inFlight = @ - 1]
    /\ UNCHANGED <<pc, notesVars, routeVars>>

\* generateRoute's catch block, getRoute having thrown
RouteFails ==
    /\ app.inFlight > 0
    /\ \E message \in RequestErrors :
          app' = [app EXCEPT !.loading = FALSE, !.error = message,
                             !.inFlight = @ - 1]
    /\ UNCHANGED <<pc, notesVars, routeVars>>

NextApp ==
    \/ handleMapClick
    \/ resetRoute
    \/ generateRoute
    \/ RouteArrives
    \/ RouteFails

SpecApp == InitApp /\ [][NextApp]_vars

\* C30: after a failed route request the error message is kept and no further
\* request is issued before the user resets or picks a point: a request is
\* never issued while the message of a failure is in the state (a reset and a
\* pick both clear it).
C30_NoRequestAfterFailure ==
    [][app'.requests > app.requests => app.error = Null]_vars

====
